---- MODULE Spec2Model ----
(***************************************************************************)
(* Model of the Christmas-tree-farm service handlers.                      *)
(*                                                                         *)
(* The entity store (Prisma) is the state; every service function is one   *)
(* action that reads the store, computes its result as the Python code     *)
(* does, and records the call and its outcome in `call`.                   *)
(*                                                                         *)
(* Python values are modelled as follows:                                  *)
(*   None            the sentinel string None                              *)
(*   dict / Counter  a sequence of [key, value] records in insertion order *)
(*   list            a sequence                                            *)
(*   set             a set                                                 *)
(*   datetime        a record [year, month, day]                           *)
(*   a raised error  a result record [kind |-> "raise", error |-> name]    *)
(***************************************************************************)
EXTENDS Integers, Sequences, FiniteSets, TLC

VARIABLES
    roleEnum,   \* members of prisma.enums.Role in the generated client
    orders,     \* Order table (rows with their customer and items included)
    inventory,  \* InventoryItem table: [nextId, rows], rows a function of ids
    inventoryLogs, \* InventoryLog table, in order of creation
    users,      \* User table: [nextId, rows], rows in order of creation
    createdUsers, \* history: the createUser calls answered with a user id
    requests,   \* addSalesRecord coroutines in flight, each at an await
    call        \* the last service call: its arguments and its outcome

vars ==
    <<roleEnum, orders, inventory, inventoryLogs, users, createdUsers,
      requests, call>>

\* The tables of the entity store
store == <<orders, inventory, inventoryLogs, users>>

----------------------------------------------------------------------------
(* Bounds of the model                                                     *)

\* Largest number of rows in the Order table.
MaxOrders == 3

----------------------------------------------------------------------------
(* Python's None and truthiness of Optional[str]                           *)

None == "<None>"

\* `if product:` -- None and the empty string are falsy.
Truthy(s) == s # None /\ s # ""

----------------------------------------------------------------------------
(* Roles                                                                   *)

\* Role names the services refer to as prisma.enums.Role.<name>.
RoleNames ==
    { "Admin", "SalesManager", "AnalyticsManager", "InventoryManager",
      "OrderFulfillmentOfficer", "SupplyChainCoordinator",
      "HumanResourcesManager", "CustomerServiceRepresentative" }

\* Optional[...] values that are not strings: None, or a value
Nothing == [isNone |-> TRUE]
Some(v) == [isNone |-> FALSE, value |-> v]

\* The authenticated actor handed to a service: None or a User row.
NoUser == [isNone |-> TRUE]
User(r) == [isNone |-> FALSE, role |-> r]

----------------------------------------------------------------------------
(* datetime and strftime("%Y-%m")                                          *)

Date(y, m, d) == [year |-> y, month |-> m, day |-> d]

\* a <= b on datetimes
DateLE(a, b) ==
    \/ a.year < b.year
    \/ a.year = b.year /\ a.month < b.month
    \/ a.year = b.year /\ a.month = b.month /\ a.day <= b.day

Digit(n) ==
    CASE n = 0 -> "0" [] n = 1 -> "1" [] n = 2 -> "2" [] n = 3 -> "3"
      [] n = 4 -> "4" [] n = 5 -> "5" [] n = 6 -> "6" [] n = 7 -> "7"
      [] n = 8 -> "8" [] n = 9 -> "9"

\* %Y: the year as four decimal digits
FormatYear(y) ==
    Digit((y \div 1000) % 10) \o Digit((y \div 100) % 10)
        \o Digit((y \div 10) % 10) \o Digit(y % 10)

\* %m: the month as two decimal digits, zero padded
FormatMonth(m) == Digit((m \div 10) % 10) \o Digit(m % 10)

\* order.placedAt.strftime("%Y-%m")
Strftime(d) == FormatYear(d.year) \o "-" \o FormatMonth(d.month)

----------------------------------------------------------------------------
(* Insertion-ordered dict as a sequence of [key, value]                    *)

DictKeys(d) == { d[i].key : i \in 1..Len(d) }

DictIndex(d, k) == CHOOSE i \in 1..Len(d) : d[i].key = k

DictGet(d, k) == d[DictIndex(d, k)].value

\* d[k] = v : overwrite in place, or append a new key at the end
DictSet(d, k, v) ==
    IF k \in DictKeys(d)
    THEN [d EXCEPT ![DictIndex(d, k)] = [key |-> k, value |-> v]]
    ELSE Append(d, [key |-> k, value |-> v])

\* dict.values() as a sequence
DictValues(d) == [i \in 1..Len(d) |-> d[i].value]

\* list(a_set): some enumeration of the set's elements
RECURSIVE SetToList(_)
SetToList(S) ==
    IF S = {} THEN <<>>
    ELSE LET x == CHOOSE y \in S : TRUE IN <<x>> \o SetToList(S \ {x})

----------------------------------------------------------------------------
(* Outcome of a call or of a step that can raise                           *)

Raise(e) == [kind |-> "raise", error |-> e]
Return(v) == [kind |-> "ok", value |-> v]

\* raise HTTPException(status_code=..., detail=...)
RaiseHTTP(status_code, detail) ==
    [kind |-> "raise", error |-> "HTTPException",
     status_code |-> status_code, detail |-> detail]

----------------------------------------------------------------------------
(* The route around a service function (server.py)                         *)

\* Response(content=..., status_code=..., media_type=...): the constructor
\* renders the content at once, returning bytes as they are and calling
\* content.encode(charset) on anything else, which a dict does not have.
StarletteResponse(content, status_code) ==
    IF content.type = "dict" THEN Raise("AttributeError")
    ELSE Return([status_code |-> status_code, body |-> content.value])

\* try: res = await service(...); return res
\* except Exception as e:
\*     res = dict(); res["error"] = str(e)
\*     return Response(content=jsonable_encoder(res), status_code=500, ...)
\* The outcome is what leaves the route function: a returned response, or
\* the exception raised inside the except block.
Route(result) ==
    IF result.kind = "ok"
    THEN Return([status_code |-> 200, body |-> result.value])
    ELSE StarletteResponse([type |-> "dict", value |-> [error |-> result]], 500)

----------------------------------------------------------------------------
(* Rows of the store                                                       *)

Customer(i, s) == [id |-> i, segment |-> s]
OrderItem(n, q) == [item |-> [name |-> n], quantity |-> q]
Order(d, c, its) == [placedAt |-> d, customer |-> c, items |-> its]

\* Orders the store may hold.  The first three are the scenario of spec
\* section 8; the others add ties, an order without items, a product listed
\* twice in one order, two days of one month, and more than five products.
OrderPool ==
    { Order(Date(2024, 1, 5), Customer(1, "retail"),
            <<OrderItem("ProductA", 3)>>),
      Order(Date(2024, 1, 20), Customer(1, "retail"),
            <<OrderItem("ProductB", 1)>>),
      Order(Date(2024, 2, 3), Customer(2, "wholesale"),
            <<OrderItem("ProductA", 2)>>),
      Order(Date(2024, 2, 14), Customer(2, "wholesale"),
            <<OrderItem("ProductB", 2), OrderItem("ProductC", 2)>>),
      Order(Date(2024, 3, 1), Customer(3, "retail"),
            <<OrderItem("ProductD", 1), OrderItem("ProductE", 1),
              OrderItem("ProductF", 1)>>),
      Order(Date(2024, 3, 9), Customer(1, "retail"),
            <<OrderItem("ProductC", 1), OrderItem("ProductA", 1),
              OrderItem("ProductC", 1)>>),
      Order(Date(2024, 1, 31), Customer(2, "wholesale"), <<>>),
      Order(Date(2023, 12, 31), Customer(3, "retail"),
            <<OrderItem("ProductF", 4), OrderItem("ProductE", 2)>>),
      Order(Date(2024, 2, 3), Customer(3, "retail"),
            <<OrderItem("ProductG", 1), OrderItem("ProductD", 2)>>) }

RECURSIVE SeqsUpTo(_, _)
SeqsUpTo(S, n) ==
    IF n = 0 THEN { <<>> }
    ELSE LET shorter == SeqsUpTo(S, n - 1)
         IN shorter \cup { Append(s, x) : s \in shorter, x \in S }

----------------------------------------------------------------------------
(* analyzeSalesTrends                                                      *)

\* Length of the slice [:5] taken from the sorted products.
TopProductsLimit == 5

\* Order.prisma().find_many(where=filters, include=...): the rows of the table
\* that satisfy the filters the handler built, in table order.  start_date and
\* end_date are the datetimes the store reads from the request's strings.
FindManyOrders(table, start_date, end_date, product, customer_segment) ==
    SelectSeq(table, LAMBDA o :
        /\ DateLE(start_date, o.placedAt)
        /\ DateLE(o.placedAt, end_date)
        /\ Truthy(product) =>
              \E j \in 1..Len(o.items) : o.items[j].item.name = product
        /\ Truthy(customer_segment) => o.customer.segment = customer_segment)

\* A tally whose entry starts at the first quantity and then adds it again
RECURSIVE TallyItemsFirstTwice(_, _, _)
TallyItemsFirstTwice(items, j, top_products_count) ==
    IF j > Len(items) THEN top_products_count
    ELSE LET product_name == items[j].item.name
             started ==
                 IF product_name \notin DictKeys(top_products_count)
                 THEN DictSet(top_products_count, product_name,
                              items[j].quantity)
                 ELSE top_products_count
         IN TallyItemsFirstTwice(items, j + 1,
                DictSet(started, product_name,
                        DictGet(started, product_name) + items[j].quantity))

\* for item in order.items: top_products_count[name] += item.quantity
RECURSIVE TallyItems(_, _, _)
TallyItems(items, j, top_products_count) ==
    IF j > Len(items) THEN top_products_count
    ELSE LET product_name == items[j].item.name
             started ==
                 IF product_name \notin DictKeys(top_products_count)
                 THEN DictSet(top_products_count, product_name, 0)
                 ELSE top_products_count
         IN TallyItems(items, j + 1,
                DictSet(started, product_name,
                        DictGet(started, product_name) + items[j].quantity))

\* The first order of a customer only creates the entry; later ones count
TrackCustomerFirstUncounted(customers_trend, order, customer_segment) ==
    LET customer_id == order.customer.id
    IN IF customer_id \notin DictKeys(customers_trend)
       THEN DictSet(customers_trend, customer_id,
                    [count |-> 0, segments |-> {customer_segment}])
       ELSE DictSet(customers_trend, customer_id,
                    [count |-> DictGet(customers_trend, customer_id).count + 1,
                     segments |->
                         DictGet(customers_trend, customer_id).segments
                             \cup {customer_segment}])

\* The segment recorded is the customer's own, not the filter value
TrackCustomerOwnSegment(customers_trend, order, customer_segment) ==
    LET customer_id == order.customer.id
        started ==
            IF customer_id \notin DictKeys(customers_trend)
            THEN DictSet(customers_trend, customer_id,
                         [count |-> 0, segments |-> {}])
            ELSE customers_trend
        data == DictGet(started, customer_id)
    IN DictSet(started, customer_id,
               [count |-> data.count + 1,
                segments |-> data.segments \cup {order.customer.segment}])

\* customers_trend[customer_id]: created on first sight, then count += 1 and
\* segments.add(customer_segment)
TrackCustomer(customers_trend, order, customer_segment) ==
    LET customer_id == order.customer.id
        started ==
            IF customer_id \notin DictKeys(customers_trend)
            THEN DictSet(customers_trend, customer_id,
                         [count |-> 0, segments |-> {}])
            ELSE customers_trend
        data == DictGet(started, customer_id)
    IN DictSet(started, customer_id,
               [count |-> data.count + 1,
                segments |-> data.segments \cup {customer_segment}])

\* for order in orders: ... (one pass over the rows found)
RECURSIVE CollectOrders(_, _, _, _)
CollectOrders(found, i, customer_segment, acc) ==
    IF i > Len(found) THEN acc
    ELSE LET order == found[i]
             month == Strftime(order.placedAt)
         IN CollectOrders(found, i + 1, customer_segment,
                [peak_periods |-> Append(acc.peak_periods, month),
                 top_products_count |->
                     TallyItems(order.items, 1, acc.top_products_count),
                 customers_trend |->
                     TrackCustomer(acc.customers_trend, order,
                                   customer_segment)])

\* Counter(peak_periods): occurrences of each element, keyed in the order of
\* first occurrence
RECURSIVE Counter(_, _, _)
Counter(list, i, counts) ==
    IF i > Len(list) THEN counts
    ELSE Counter(list, i + 1,
             IF list[i] \in DictKeys(counts)
             THEN DictSet(counts, list[i], DictGet(counts, list[i]) + 1)
             ELSE DictSet(counts, list[i], 1))

\* min() where max() was meant
PyMin(values) ==
    IF Len(values) = 0 THEN Raise("ValueError")
    ELSE Return(CHOOSE m \in { values[i] : i \in 1..Len(values) } :
                    \A i \in 1..Len(values) : m <= values[i])

\* max(values): raises ValueError on an empty collection
PyMax(values) ==
    IF Len(values) = 0 THEN Raise("ValueError")
    ELSE Return(CHOOSE m \in { values[i] : i \in 1..Len(values) } :
                    \A i \in 1..Len(values) : values[i] <= m)

\* max() taken once, before the comprehension: raises on an empty Counter
TopPeakPeriodsMaxFirst(peak_periods_count) ==
    LET top == PyMax(DictValues(peak_periods_count))
    IN IF top.kind = "raise" THEN top
       ELSE Return(
                LET kept == SelectSeq(peak_periods_count,
                                      LAMBDA e : e.value = top.value)
                IN [i \in 1..Len(kept) |-> kept[i].key])

\* The maximum read off Counter.most_common(1)[0]: IndexError when empty
TopPeakPeriodsMostCommon(peak_periods_count) ==
    IF Len(peak_periods_count) = 0 THEN Raise("IndexError")
    ELSE Return(
             LET kept == SelectSeq(peak_periods_count, LAMBDA e :
                             e.value = PyMax(DictValues(peak_periods_count)).value)
             IN [i \in 1..Len(kept) |-> kept[i].key])

\* Keeps the first period that reaches the maximum only
TopPeakPeriodsFirstOnly(peak_periods_count) ==
    LET kept == SelectSeq(peak_periods_count, LAMBDA e :
                    e.value = PyMax(DictValues(peak_periods_count)).value)
    IN Return(IF Len(kept) = 0 THEN <<>> ELSE <<kept[1].key>>)

\* [period for period, count in peak_periods_count.items()
\*         if count == max(peak_periods_count.values())]
\* max() is evaluated once per entry, hence never for an empty Counter.
TopPeakPeriods(peak_periods_count) ==
    IF \E i \in 1..Len(peak_periods_count) :
           PyMax(DictValues(peak_periods_count)).kind = "raise"
    THEN Raise("ValueError")
    ELSE Return(
             LET kept == SelectSeq(peak_periods_count, LAMBDA e :
                             e.value = PyMax(DictValues(peak_periods_count)).value)
             IN [i \in 1..Len(kept) |-> kept[i].key])

\* A descending sort in which equal values end up in reverse order
\* (an ascending sort, reversed).
InsertDescendingTiesReversed(sorted, e) ==
    LET k == Cardinality({ i \in 1..Len(sorted) : sorted[i].value > e.value })
    IN SubSeq(sorted, 1, k) \o <<e>> \o SubSeq(sorted, k + 1, Len(sorted))

\* Position of e in a list sorted by descending value: behind every entry
\* whose value is at least e's, so equal values keep their order.
InsertDescending(sorted, e) ==
    LET k == Cardinality({ i \in 1..Len(sorted) : sorted[i].value >= e.value })
    IN SubSeq(sorted, 1, k) \o <<e>> \o SubSeq(sorted, k + 1, Len(sorted))

\* sorted(items, key=lambda kv: kv[1], reverse=True): stable, descending
RECURSIVE SortedByCountReverse(_, _, _)
SortedByCountReverse(items, i, sorted) ==
    IF i > Len(items) THEN sorted
    ELSE SortedByCountReverse(items, i + 1, InsertDescending(sorted, items[i]))

\* The slice forgotten
SliceAll(list, n) == list

\* The slice [:5]
Slice(list, n) == SubSeq(list, 1, IF Len(list) < n THEN Len(list) ELSE n)

\* The names padded with None up to five entries
TopProductsPadded(top_products_count) ==
    LET sorted_top_products ==
            Slice(SortedByCountReverse(top_products_count, 1, <<>>),
                  TopProductsLimit)
    IN [i \in 1..TopProductsLimit |->
           IF i <= Len(sorted_top_products)
           THEN sorted_top_products[i].key ELSE None]

\* sorted(...)[:5], then the product names
TopProducts(top_products_count) ==
    LET sorted_top_products ==
            Slice(SortedByCountReverse(top_products_count, 1, <<>>),
                  TopProductsLimit)
    IN [i \in 1..Len(sorted_top_products) |-> sorted_top_products[i].key]

\* {cust_id: {"order_count": data["count"], "segments": list(data["segments"])}}
FormatCustomerTrends(customers_trend) ==
    [i \in 1..Len(customers_trend) |->
        [key |-> customers_trend[i].key,
         value |-> [order_count |-> customers_trend[i].value.count,
                    segments |-> SetToList(customers_trend[i].value.segments)]]]

\* peak_periods = [], top_products_count = {}, customers_trend = {}
NewCollection ==
    [peak_periods |-> <<>>, top_products_count |-> <<>>,
     customers_trend |-> <<>>]

\* Lines 67-101: the aggregation over the rows the store returned
AggregateSalesTrends(found, customer_segment) ==
    LET acc == CollectOrders(found, 1, customer_segment, NewCollection)
        top_peak_periods == TopPeakPeriods(Counter(acc.peak_periods, 1, <<>>))
    IN IF top_peak_periods.kind = "raise" THEN top_peak_periods
       ELSE Return([peak_periods |-> top_peak_periods.value,
                    top_products |-> TopProducts(acc.top_products_count),
                    customer_trends |->
                        FormatCustomerTrends(acc.customers_trend)])

\* Roles the handler lets through
AnalyzeSalesTrendsRoles == { "SalesManager", "AnalyticsManager" }

\* Lines 53-58.  The list of allowed roles is built from members of
\* prisma.enums.Role before the membership test, so a member the generated
\* enum lacks raises AttributeError for every actor that is not None.
AnalyzeSalesTrendsGate(enum, current_user) ==
    IF current_user.isNone THEN Raise("PermissionError")
    ELSE IF ~(AnalyzeSalesTrendsRoles \subseteq enum) THEN Raise("AttributeError")
    ELSE IF current_user.role \notin AnalyzeSalesTrendsRoles
         THEN Raise("PermissionError")
    ELSE Return(TRUE)

NoCall == [op |-> "none"]

\* GET /sales/trends, one request: analyzeSalesTrends(start_date, end_date,
\* product, customer_segment, current_user) run to its return or raise.  The
\* store is read only after the gate, and never written.
AnalyzeSalesTrends(start_date, end_date, product, customer_segment, current_user) ==
    LET gate == AnalyzeSalesTrendsGate(roleEnum, current_user)
        found == FindManyOrders(orders, start_date, end_date, product,
                                customer_segment)
    IN /\ call = NoCall
       /\ call' =
            [op |-> "analyzeSalesTrends",
             start_date |-> start_date, end_date |-> end_date,
             product |-> product, customer_segment |-> customer_segment,
             current_user |-> current_user,
             queried |-> (gate.kind = "ok"),
             found |-> IF gate.kind = "ok" THEN found ELSE <<>>,
             result |-> IF gate.kind = "ok"
                        THEN AggregateSalesTrends(found, customer_segment)
                        ELSE gate,
             http |-> Route(IF gate.kind = "ok"
                            THEN AggregateSalesTrends(found, customer_segment)
                            ELSE gate)]
       /\ UNCHANGED <<roleEnum, store, createdUsers, requests>>

----------------------------------------------------------------------------
(* getSuppliers                                                            *)

\* Rows of the User table, each with its Profile (None when it has none)
NoProfile == [isNone |-> TRUE]
Profile(email, phone) == [isNone |-> FALSE, email |-> email, phone |-> phone]
UserRow(id, username, role, hashed_password, disabled, profile) ==
    [id |-> id, username |-> username, role |-> role,
     hashed_password |-> hashed_password, disabled |-> disabled,
     profile |-> profile]

\* Roles getSuppliers lets through
GetSuppliersRoles == { "Admin", "SupplyChainCoordinator" }

\* Lines 52-58: current_user.role is read without a test for None.
GetSuppliersGate(current_user) ==
    IF current_user.isNone THEN Raise("AttributeError")
    ELSE IF current_user.role \notin GetSuppliersRoles
         THEN Raise("PermissionError")
    ELSE Return(TRUE)

\* Profile.prisma().find_many(where={"user": {"role": "SupplyChainCoordinator"}})
\* without include: the rows come back with user = None.
FindManySupplierProfiles(table) ==
    LET matching == SelectSeq(table.rows, LAMBDA u :
                        ~u.profile.isNone /\ u.role = "SupplyChainCoordinator")
    IN [i \in 1..Len(matching) |->
           [email |-> matching[i].profile.email, user |-> None]]

\* [SupplierInfo(...) for profile in profiles if profile.user is not None]
SupplierInfos(profiles) ==
    LET kept == SelectSeq(profiles, LAMBDA p : p.user # None)
    IN [i \in 1..Len(kept) |->
           [company_name |-> kept[i].user.username,
            contact_info |-> IF Truthy(kept[i].email) THEN kept[i].email
                             ELSE "No contact info available",
            supplied_tree_types |-> <<"Pine", "Oak", "Maple">>]]

\* GET suppliers, one request
GetSuppliers(current_user) ==
    LET gate == GetSuppliersGate(current_user)
        result == IF gate.kind = "ok"
                  THEN Return([suppliers |->
                                  SupplierInfos(FindManySupplierProfiles(users))])
                  ELSE gate
    IN /\ call = NoCall
       /\ call' = [op |-> "getSuppliers", current_user |-> current_user,
                   queried |-> (gate.kind = "ok"),
                   result |-> result, http |-> Route(result)]
       /\ UNCHANGED <<roleEnum, store, createdUsers, requests>>

\* The route hands the outcome to the caller and the request is over: nothing
\* of it is kept in the process.
Complete ==
    /\ call # NoCall
    /\ call' = NoCall
    /\ UNCHANGED <<roleEnum, store, createdUsers, requests>>

----------------------------------------------------------------------------
(* Inputs                                                                  *)

\* Actors: no active user, and users of three roles
Actors == { NoUser, User("Admin"), User("SalesManager"), User("AnalyticsManager") }

\* <<start_date, end_date>> of a request: a range holding every order of the
\* pool, and January and February 2024 only
DateRanges ==
    { <<Date(2023, 12, 1), Date(2024, 12, 31)>>,
      <<Date(2024, 1, 1), Date(2024, 2, 29)>> }

\* Actors of getSuppliers
SupplierActors ==
    { NoUser, User("Admin"), User("SupplyChainCoordinator"),
      User("SalesManager"), User("InventoryManager") }

ProductFilters == { None, "ProductA" }

SegmentFilters == { None, "", "retail" }

Init ==
    /\ roleEnum \in { RoleNames, RoleNames \ {"AnalyticsManager"} }
    /\ orders \in SeqsUpTo(OrderPool, MaxOrders)
    /\ inventory = [nextId |-> 1, rows |-> <<>>]
    /\ inventoryLogs = <<>>
    /\ users = [nextId |-> 1, rows |-> <<>>]
    /\ createdUsers = <<>>
    /\ requests = <<>>
    /\ call = NoCall

Next ==
    \/ Complete
    \/ \E current_user \in SupplierActors : GetSuppliers(current_user)
    \/ \E range \in DateRanges, product \in ProductFilters,
       customer_segment \in SegmentFilters, current_user \in Actors :
        AnalyzeSalesTrends(range[1], range[2], product, customer_segment,
                           current_user)

Spec == Init /\ [][Next]_vars

----------------------------------------------------------------------------
(* What the claims speak of, defined from the rows the store returned      *)

\* A call of analyzeSalesTrends got past the gate and read the store
Queried == call.op = "analyzeSalesTrends" /\ call.queried

\* ... and returned a SalesTrendsResponse
Analyzed == Queried /\ call.result.kind = "ok"

Response == call.result.value

IndicesOf(list) == 1..Len(list)

NoDuplicates(list) ==
    \A i, j \in IndicesOf(list) : list[i] = list[j] => i = j

\* Year-month labels of the orders found, and the orders of each
PeriodsOf(found) == { Strftime(found[i].placedAt) : i \in IndicesOf(found) }

OrderCountOf(found, period) ==
    Cardinality({ i \in IndicesOf(found) : Strftime(found[i].placedAt) = period })

IsPeakPeriod(found, period) ==
    /\ period \in PeriodsOf(found)
    /\ \A other \in PeriodsOf(found) :
           OrderCountOf(found, other) <= OrderCountOf(found, period)

\* All line items of the orders found, in iteration order
RECURSIVE LineItemsOf(_)
LineItemsOf(found) ==
    IF found = <<>> THEN <<>>
    ELSE Head(found).items \o LineItemsOf(Tail(found))

ProductsOf(found) ==
    { LineItemsOf(found)[k].item.name : k \in IndicesOf(LineItemsOf(found)) }

\* Total quantity of a product over all line items
RECURSIVE SumQuantity(_, _)
SumQuantity(lines, name) ==
    IF lines = <<>> THEN 0
    ELSE (IF Head(lines).item.name = name THEN Head(lines).quantity ELSE 0)
             + SumQuantity(Tail(lines), name)

TotalQuantityOf(found, name) == SumQuantity(LineItemsOf(found), name)

\* Position of the first line item that names the product
FirstSeen(found, name) ==
    CHOOSE k \in IndicesOf(LineItemsOf(found)) :
        /\ LineItemsOf(found)[k].item.name = name
        /\ \A l \in 1..(k - 1) : LineItemsOf(found)[l].item.name # name

\* p ranks before q: larger total, or equal total and seen first
RanksBefore(found, p, q) ==
    \/ TotalQuantityOf(found, p) > TotalQuantityOf(found, q)
    \/ /\ TotalQuantityOf(found, p) = TotalQuantityOf(found, q)
       /\ FirstSeen(found, p) < FirstSeen(found, q)

CustomerIdsOf(found) == { found[i].customer.id : i \in IndicesOf(found) }

OrdersOfCustomer(found, id) ==
    Cardinality({ i \in IndicesOf(found) : found[i].customer.id = id })

RECURSIVE SumOrderCounts(_)
SumOrderCounts(trends) ==
    IF trends = <<>> THEN 0
    ELSE Head(trends).value.order_count + SumOrderCounts(Tail(trends))

Min(a, b) == IF a < b THEN a ELSE b

\* The scenario of spec section 8
ScenarioOrders ==
    << Order(Date(2024, 1, 5), Customer(1, "retail"),
             <<OrderItem("ProductA", 3)>>),
       Order(Date(2024, 1, 20), Customer(1, "retail"),
             <<OrderItem("ProductB", 1)>>),
       Order(Date(2024, 2, 3), Customer(2, "wholesale"),
             <<OrderItem("ProductA", 2)>> ) >>

----------------------------------------------------------------------------
(* Claims                                                                  *)

\* C1: for a non-empty set of orders returned by the store, peak_periods is
\* non-empty and every returned period has an order count equal to the
\* maximum order count over all periods.
C1_PeakPeriodsAreMaximal ==
    (Analyzed /\ call.found # <<>>) =>
        /\ Len(Response.peak_periods) >= 1
        /\ \A i \in IndicesOf(Response.peak_periods) :
               IsPeakPeriod(call.found, Response.peak_periods[i])

\* Orders in several periods with different counts were analysed.
C1_Witness ==
    /\ Analyzed
    /\ \E p, q \in PeriodsOf(call.found) :
           OrderCountOf(call.found, p) < OrderCountOf(call.found, q)
    /\ Len(Response.peak_periods) = 1

\* C2: peak_periods contains every period whose order count equals the
\* maximum, each exactly once; periods that tie for the maximum all appear.
C2_AllPeakPeriodsOnce ==
    Analyzed =>
        \A period \in PeriodsOf(call.found) :
            IsPeakPeriod(call.found, period) =>
                Cardinality({ i \in IndicesOf(Response.peak_periods) :
                                Response.peak_periods[i] = period }) = 1

\* Two periods tie for the maximum and both are returned.
C2_Witness ==
    /\ Analyzed
    /\ Cardinality(PeriodsOf(call.found)) = 2
    /\ \A p, q \in PeriodsOf(call.found) :
           OrderCountOf(call.found, p) = OrderCountOf(call.found, q)
    /\ Len(Response.peak_periods) = 2

\* C3: top_products has length at most 5, contains no product twice, and is
\* ordered by non-increasing summed quantity.
C3_TopProductsBoundedSorted ==
    Analyzed =>
        /\ Len(Response.top_products) <= 5
        /\ NoDuplicates(Response.top_products)
        /\ \A i, j \in IndicesOf(Response.top_products) :
               i < j => TotalQuantityOf(call.found, Response.top_products[i])
                            >= TotalQuantityOf(call.found, Response.top_products[j])

\* More than five products were sold, with different totals, and five are
\* returned.
C3_Witness ==
    /\ Analyzed
    /\ Cardinality(ProductsOf(call.found)) > 5
    /\ Len(Response.top_products) = 5
    /\ TotalQuantityOf(call.found, Response.top_products[1])
           > TotalQuantityOf(call.found, Response.top_products[5])

\* C4: top_products is exactly the first min(5, number of distinct products)
\* products of the ranking by summed quantity, descending, in which products
\* of equal summed quantity rank in the order they were first encountered;
\* the orders (2024-01, A x3), (2024-01, B x1), (2024-02, A x2) give peak
\* periods [2024-01] and top products [A, B].
C4_TopProductsStableRanking ==
    Analyzed =>
        /\ Len(Response.top_products)
               = Min(5, Cardinality(ProductsOf(call.found)))
        /\ \A i \in IndicesOf(Response.top_products) :
               /\ Response.top_products[i] \in ProductsOf(call.found)
               /\ \A j \in IndicesOf(Response.top_products) :
                      i < j => RanksBefore(call.found, Response.top_products[i],
                                           Response.top_products[j])
               /\ \A other \in ProductsOf(call.found) :
                      (\A j \in IndicesOf(Response.top_products) :
                           Response.top_products[j] # other)
                          => RanksBefore(call.found, Response.top_products[i], other)
        /\ call.found = ScenarioOrders =>
               /\ Response.peak_periods = <<"2024-01">>
               /\ Response.top_products = <<"ProductA", "ProductB">>

\* The scenario of the claim was analysed.
C4_Witness ==
    /\ Analyzed
    /\ call.found = ScenarioOrders
    /\ Response.top_products = <<"ProductA", "ProductB">>
    /\ TotalQuantityOf(call.found, "ProductA") = 5

\* C5: when the store returns no order, the call returns peak_periods = [],
\* top_products = [] and empty customer_trends, and does not fail on the
\* maximum of an empty collection.
C5_EmptyOrderSet ==
    (Queried /\ call.found = <<>>) =>
        /\ call.result.kind = "ok"
        /\ Response.peak_periods = <<>>
        /\ Response.top_products = <<>>
        /\ Response.customer_trends = <<>>

\* The store held orders, none of them matched the filters, and the call
\* returned.
C5_Witness ==
    /\ Queried
    /\ orders # <<>>
    /\ call.found = <<>>
    /\ call.result.kind = "ok"

\* C6: the quantity the aggregation sums for each product of top_products
\* never exceeds the true total quantity of that product over the line items
\* of the orders in range.
C6_SummedQuantityWithinTotal ==
    Analyzed =>
        LET tally == CollectOrders(call.found, 1, call.customer_segment,
                                   NewCollection).top_products_count
        IN \A i \in IndicesOf(Response.top_products) :
               /\ Response.top_products[i] \in DictKeys(tally)
               /\ DictGet(tally, Response.top_products[i])
                      <= TotalQuantityOf(call.found, Response.top_products[i])

\* A returned product was sold in several line items of several orders.
C6_Witness ==
    /\ Analyzed
    /\ Len(call.found) >= 2
    /\ \E i \in IndicesOf(Response.top_products) :
           /\ Cardinality({ k \in IndicesOf(LineItemsOf(call.found)) :
                   LineItemsOf(call.found)[k].item.name
                       = Response.top_products[i] }) >= 2
           /\ TotalQuantityOf(call.found, Response.top_products[i]) >= 4

\* C7: a product that appears in no line item of any order in range is
\* absent from top_products; every product of top_products appears in at
\* least one line item (no zero-padding).
C7_OnlySoldProducts ==
    Analyzed =>
        \A i \in IndicesOf(Response.top_products) :
            \E k \in IndicesOf(LineItemsOf(call.found)) :
                LineItemsOf(call.found)[k].item.name = Response.top_products[i]

\* Fewer than five products were sold in range, the store holds orders of
\* other products out of range, and only the products sold are returned.
C7_Witness ==
    /\ Analyzed
    /\ ProductsOf(orders) \ ProductsOf(call.found) # {}
    /\ Len(Response.top_products) = Cardinality(ProductsOf(call.found))
    /\ Len(Response.top_products) \in 1..4

\* C8: customer_trends has an entry for exactly the customer ids that own at
\* least one order found; each order_count is the number of orders of that
\* customer, so the order_counts sum to the number of orders.
C8_CustomerOrderCounts ==
    Analyzed =>
        /\ DictKeys(Response.customer_trends) = CustomerIdsOf(call.found)
        /\ Len(Response.customer_trends) = Cardinality(CustomerIdsOf(call.found))
        /\ \A i \in IndicesOf(Response.customer_trends) :
               Response.customer_trends[i].value.order_count
                   = OrdersOfCustomer(call.found, Response.customer_trends[i].key)
        /\ SumOrderCounts(Response.customer_trends) = Len(call.found)

\* Two customers were found, one of them with several orders.
C8_Witness ==
    /\ Analyzed
    /\ Len(Response.customer_trends) >= 2
    /\ \E i \in IndicesOf(Response.customer_trends) :
           Response.customer_trends[i].value.order_count >= 2

\* C9: each customer's segments is the one-element collection holding the
\* caller-supplied customer_segment (None when no filter was supplied), the
\* same for all customers, whatever the customer's own segment.
C9_SegmentsAreTheFilterValue ==
    Analyzed =>
        \A i \in IndicesOf(Response.customer_trends) :
            Response.customer_trends[i].value.segments = <<call.customer_segment>>

\* No segment filter was supplied, customers of different segments were
\* found, and each of them is reported with [None].
C9_Witness ==
    /\ Analyzed
    /\ call.customer_segment = None
    /\ Cardinality({ call.found[i].customer.segment :
                        i \in IndicesOf(call.found) }) >= 2
    /\ \A i \in IndicesOf(Response.customer_trends) :
           Response.customer_trends[i].value.segments = <<None>>

----------------------------------------------------------------------------
(* Handlers that write the store                                           *)

\* Largest number of rows of the InventoryItem table
MaxInventoryItems == 3

\* Largest number of rows of the InventoryLog table
MaxInventoryLogs == 2

\* The authenticated actor as a User row: its id and its role
StaffUser(id, role) == [isNone |-> FALSE, id |-> id, role |-> role]

\* raise ValueError("..."): an error with its message
RaiseWith(e, message) == [kind |-> "raise", error |-> e, message |-> message]

InventoryItem(id, name, quantity) ==
    [id |-> id, name |-> name, quantity |-> quantity]

InventoryLog(id, itemId, changedBy, changeType, amount) ==
    [id |-> id, itemId |-> itemId, changedBy |-> changedBy,
     changeType |-> changeType, amount |-> amount]

\* An Order row with its id; its OrderItem rows carry their id and itemId
StoredOrderItem(id, itemId, name, quantity) ==
    [id |-> id, itemId |-> itemId, item |-> [name |-> name],
     quantity |-> quantity]
StoredOrder(id, items) ==
    [id |-> id, placedAt |-> Date(2024, 1, 5),
     customer |-> Customer(1, "retail"), items |-> items]

\* find_unique(where={"id": id}): the row, or None
HasRow(rows, id) == \E i \in 1..Len(rows) : rows[i].id = id
RowOf(rows, id) == rows[CHOOSE i \in 1..Len(rows) : rows[i].id = id]

\* delete(where={"id": id})
DeleteRow(rows, id) == SelectSeq(rows, LAMBDA r : r.id # id)

\* update(where={"id": id}, data={"quantity": {"increment": amount}})
IncrementQuantity(rows, id, amount) ==
    [i \in 1..Len(rows) |->
        IF rows[i].id = id
        THEN [rows[i] EXCEPT !.quantity = rows[i].quantity + amount]
        ELSE rows[i]]

\* create(data=...) on a table with an autoincrement id
CreateRow(table, row) ==
    [nextId |-> table.nextId + 1, rows |-> Append(table.rows, row)]

\* What a handler leaves behind: its outcome, the store writes it performed
\* (in order) and the tables after them
Outcome(result, writes, o, inv, logs, u) ==
    [result |-> result, writes |-> writes, orders |-> o, inventory |-> inv,
     inventoryLogs |-> logs, users |-> u]

\* The handler returned or raised without writing
Untouched(result) ==
    Outcome(result, <<>>, orders, inventory, inventoryLogs, users)

\* One request through a route: the handler runs to its return or raise
StoreCall(op, args, current_user, out) ==
    /\ call = NoCall
    /\ call' = [op |-> op, args |-> args, current_user |-> current_user,
                before |-> [orders |-> orders, inventory |-> inventory,
                            inventoryLogs |-> inventoryLogs, users |-> users,
                            createdUsers |-> createdUsers],
                writes |-> out.writes,
                result |-> out.result,
                http |-> Route(out.result)]
    /\ orders' = out.orders
    /\ inventory' = out.inventory
    /\ inventoryLogs' = out.inventoryLogs
    /\ users' = out.users
    /\ createdUsers' =
           IF op = "createUser" /\ out.result.kind = "ok"
                                /\ ~out.result.value.user_id.isNone
           THEN Append(createdUsers,
                       [email |-> args.email,
                        user_id |-> out.result.value.user_id.value])
           ELSE createdUsers
    /\ UNCHANGED <<roleEnum, requests>>

\* prisma.models.InventoryItem.quantity: a field read on the model class, not
\* on a row.  The class has no such attribute.
ModelClassField(model, field) == Raise("AttributeError")

\* Stock an item may hold before a request that can fail half-way and be
\* repeated is let in
MaxQuantity == 4

\* The write a store failure is injected at: none
NoFault == "<none>"

\* A store call that fails (the connection is lost, a constraint is violated)
StoreFailure == Raise("PrismaError")

\* data={"quantity": {"decrement": quantity}}: the store subtracts from the
\* row as it is when the update runs
QuantityDataDecrement(quantity) == Return([increment |-> 0 - quantity])

\* Line 59, data={"quantity": prisma.models.InventoryItem.quantity - quantity}:
\* the minuend is read from the model class, which raises.
QuantityData(quantity) ==
    LET class_quantity == ModelClassField("InventoryItem", "quantity")
    IN IF class_quantity.kind = "raise" THEN class_quantity
       ELSE Return([set |-> class_quantity.value - quantity])

\* update(where={"id": id}, data={"quantity": data}) on InventoryItem: data
\* is a value to store or an atomic {"increment": n}
ApplyQuantityData(rows, id, data) ==
    IF "set" \in DOMAIN data
    THEN [i \in 1..Len(rows) |->
             IF rows[i].id = id THEN [rows[i] EXCEPT !.quantity = data.set]
             ELSE rows[i]]
    ELSE IncrementQuantity(rows, id, data.increment)

\* addSalesRecord(product_id, quantity, sale_price, current_user), lines
\* 50-74, with the store failing at the write named by `failing`: no role is
\* tested, and no try block or transaction surrounds the two writes.  The
\* data of the update is computed before the update is sent.
AddSalesRecordOutcomeWhen(product_id, quantity, current_user, failing) ==
    IF ~HasRow(inventory.rows, product_id)
    THEN Untouched(RaiseWith("ValueError", "Inventory item not found"))
    ELSE IF RowOf(inventory.rows, product_id).quantity < quantity
    THEN Untouched(RaiseWith("ValueError", "Insufficient stock available"))
    ELSE LET data == QuantityData(quantity)
         IN IF data.kind = "raise" THEN Untouched(data)
            ELSE IF failing = "InventoryItem.update"
            THEN Untouched(StoreFailure)
            ELSE LET updated == [inventory EXCEPT !.rows =
                                    ApplyQuantityData(@, product_id, data.value)]
                     log == InventoryLog(Len(inventoryLogs) + 1, product_id,
                                         current_user.id, "Sold", quantity)
                 IN IF current_user.isNone
                    THEN Outcome(Raise("AttributeError"),
                                 <<"InventoryItem.update">>,
                                 orders, updated, inventoryLogs, users)
                    ELSE IF failing = "InventoryLog.create"
                    THEN Outcome(StoreFailure, <<"InventoryItem.update">>,
                                 orders, updated, inventoryLogs, users)
                    ELSE Outcome(
                        Return([sale_id |-> log.id,
                                inventory_update_status |->
                                    RowOf(updated.rows, product_id).quantity,
                                financial_record_status |->
                                    "Financial transaction logged successfully."]),
                        <<"InventoryItem.update", "InventoryLog.create">>,
                        orders, updated, Append(inventoryLogs, log), users)

\* addSalesRecord against a store that does not fail
AddSalesRecordOutcome(product_id, quantity, current_user) ==
    AddSalesRecordOutcomeWhen(product_id, quantity, current_user, NoFault)

AddSalesRecord(product_id, quantity, current_user) ==
    /\ Len(inventoryLogs) < MaxInventoryLogs
    /\ StoreCall("addSalesRecord",
                 [product_id |-> product_id, quantity |-> quantity],
                 current_user,
                 AddSalesRecordOutcome(product_id, quantity, current_user))

\* One addSalesRecord request during which the store fails at `failing`
AddSalesRecordWhen(product_id, quantity, current_user, failing) ==
    /\ Len(inventoryLogs) < MaxInventoryLogs
    /\ StoreCall("addSalesRecord",
                 [product_id |-> product_id, quantity |-> quantity,
                  failing |-> failing],
                 current_user,
                 AddSalesRecordOutcomeWhen(product_id, quantity, current_user,
                                           failing))

\* Concurrent addSalesRecord requests the event loop holds
MaxRequests == 2

\* An addSalesRecord coroutine: its arguments, the await it is suspended at
\* ("find_unique", "update", "create") or "done", the data of the update it
\* has computed, the quantity the update returned, and its outcome
Request(product_id, quantity, current_user) ==
    [product_id |-> product_id, quantity |-> quantity,
     current_user |-> current_user, pc |-> "find_unique",
     data |-> Nothing, updated |-> Nothing, result |-> Nothing]

\* The coroutine ended with this outcome
Done(request, result) == [request EXCEPT !.pc = "done", !.result = Some(result)]

\* The store answers the await a coroutine is suspended at, and the coroutine
\* runs to its next await or to its end.  Lines 50-60: the lookup, the two
\* checks and the computation of the update's data; lines 57-64: the update
\* and the reading of current_user.id; lines 61-74: the log and the response.
ResumeRequest(request, inv, logs) ==
    CASE request.pc = "find_unique" ->
           [inventory |-> inv, inventoryLogs |-> logs,
            request |->
              IF ~HasRow(inv.rows, request.product_id)
              THEN Done(request, RaiseWith("ValueError",
                                           "Inventory item not found"))
              ELSE IF RowOf(inv.rows, request.product_id).quantity
                          < request.quantity
              THEN Done(request, RaiseWith("ValueError",
                                           "Insufficient stock available"))
              ELSE LET data == QuantityData(request.quantity)
                   IN IF data.kind = "raise" THEN Done(request, data)
                      ELSE [request EXCEPT !.pc = "update",
                                           !.data = Some(data.value)]]
      [] request.pc = "update" ->
           LET rows == ApplyQuantityData(inv.rows, request.product_id,
                                         request.data.value)
               updated == IF HasRow(rows, request.product_id)
                          THEN Some(RowOf(rows, request.product_id).quantity)
                          ELSE Nothing
           IN [inventory |-> [inv EXCEPT !.rows = rows],
               inventoryLogs |-> logs,
               request |->
                 IF request.current_user.isNone
                 THEN Done([request EXCEPT !.updated = updated],
                           Raise("AttributeError"))
                 ELSE [request EXCEPT !.pc = "create", !.updated = updated]]
      [] request.pc = "create" ->
           LET log == InventoryLog(Len(logs) + 1, request.product_id,
                                   request.current_user.id, "Sold",
                                   request.quantity)
           IN [inventory |-> inv, inventoryLogs |-> Append(logs, log),
               request |->
                 IF request.updated.isNone
                 THEN Done(request, Raise("AttributeError"))
                 ELSE Done(request,
                           Return([sale_id |-> log.id,
                                   inventory_update_status |->
                                       request.updated.value,
                                   financial_record_status |->
                                       "Financial transaction logged successfully."]))]

\* A request for addSalesRecord arrives and its coroutine starts: it runs to
\* its first await, the lookup.
Receive(product_id, quantity, current_user) ==
    /\ Len(requests) < MaxRequests
    /\ requests' = Append(requests, Request(product_id, quantity, current_user))
    /\ UNCHANGED <<roleEnum, store, createdUsers, call>>

\* The event loop resumes one suspended coroutine.
Resume(r) ==
    /\ r \in 1..Len(requests)
    /\ requests[r].pc # "done"
    /\ LET after == ResumeRequest(requests[r], inventory, inventoryLogs)
       IN /\ requests' = [requests EXCEPT ![r] = after.request]
          /\ inventory' = after.inventory
          /\ inventoryLogs' = after.inventoryLogs
    /\ UNCHANGED <<roleEnum, orders, users, createdUsers, call>>

\* createInventoryItem(name, category, initial_quantity, supplier,
\* current_user): no role is tested.  The item is created, then the log, whose
\* changedBy reads current_user.id.
CreateInventoryItemOutcome(name, initial_quantity, current_user) ==
    LET new_item == InventoryItem(inventory.nextId, name, initial_quantity)
        created == CreateRow(inventory, new_item)
    IN IF current_user.isNone
       THEN Outcome(Raise("AttributeError"), <<"InventoryItem.create">>,
                    orders, created, inventoryLogs, users)
       ELSE Outcome(
                Return([id |-> new_item.id, name |-> new_item.name,
                        quantity |-> new_item.quantity]),
                <<"InventoryItem.create", "InventoryLog.create">>,
                orders, created,
                Append(inventoryLogs,
                       InventoryLog(Len(inventoryLogs) + 1, new_item.id,
                                    current_user.id, "Received",
                                    initial_quantity)),
                users)

CreateInventoryItem(name, initial_quantity, current_user) ==
    /\ Len(inventory.rows) < MaxInventoryItems
    /\ Len(inventoryLogs) < MaxInventoryLogs
    /\ StoreCall("createInventoryItem",
                 [name |-> name, initial_quantity |-> initial_quantity],
                 current_user,
                 CreateInventoryItemOutcome(name, initial_quantity, current_user))

\* Quantity the order items of one order hold of an inventory item
RECURSIVE SumQuantityOfItem(_, _)
SumQuantityOfItem(items, itemId) ==
    IF items = <<>> THEN 0
    ELSE (IF Head(items).itemId = itemId THEN Head(items).quantity ELSE 0)
             + SumQuantityOfItem(Tail(items), itemId)

\* Every OrderItem row of the Order table
RECURSIVE OrderItemsOf(_)
OrderItemsOf(table) ==
    IF table = <<>> THEN <<>>
    ELSE Head(table).items \o OrderItemsOf(Tail(table))

\* OrderItem.prisma().delete(where={"id": id})
DeleteOrderItem(table, id) ==
    [i \in 1..Len(table) |->
        [table[i] EXCEPT !.items = DeleteRow(table[i].items, id)]]

\* A module-level name that the module neither defines nor imports
UndefinedName(name) == Raise("NameError")

DeleteOrderRoles == { "Admin", "OrderFulfillmentOfficer" }

\* deleteOrder(orderId, current_user).  The inventory updates are built as
\* coroutines (line 45) and handed to asyncio.gather (line 50); the module
\* does not import asyncio, so the name lookup raises before any of them
\* runs and before the order is deleted.
DeleteOrderOutcome(orderId, current_user) ==
    IF current_user.isNone THEN Untouched(Raise("AttributeError"))
    ELSE IF current_user.role \notin DeleteOrderRoles
    THEN Untouched(Return([success |-> FALSE, message |-> "Permission denied."]))
    ELSE IF ~HasRow(orders, orderId)
    THEN Untouched(Return([success |-> FALSE, message |-> "Order not found."]))
    ELSE LET order == RowOf(orders, orderId)
             asyncio == UndefinedName("asyncio")
             restored ==
                 [i \in 1..Len(inventory.rows) |->
                     [inventory.rows[i] EXCEPT !.quantity =
                         inventory.rows[i].quantity
                             + SumQuantityOfItem(order.items, inventory.rows[i].id)]]
         IN IF asyncio.kind = "raise" THEN Untouched(asyncio)
            ELSE Outcome(
                     Return([success |-> TRUE,
                             message |->
                                 "Order successfully deleted and inventory updated."]),
                     [i \in 1..Len(order.items) |-> "InventoryItem.update"]
                         \o <<"Order.delete">>,
                     DeleteRow(orders, orderId),
                     [inventory EXCEPT !.rows = restored],
                     inventoryLogs, users)

DeleteOrder(orderId, current_user) ==
    StoreCall("deleteOrder", [orderId |-> orderId], current_user,
              DeleteOrderOutcome(orderId, current_user))

DeleteSalesRecordRoles == { "SalesManager", "Admin" }

\* The message of a successful deleteSalesRecord
SalesRecordDeletedMessage ==
    "Sales record deleted successfully and inventory restored."

\* deleteSalesRecord(id, current_user), lines 32-62, with the store failing
\* at the write named by `failing`: the stock is put back and logged only if
\* the inventory item is found; the record is deleted and the same message
\* returned either way.  No try block or transaction surrounds the writes.
DeleteSalesRecordOutcomeWhen(id, current_user, failing) ==
    IF current_user.isNone THEN Untouched(Raise("AttributeError"))
    ELSE IF current_user.role \notin DeleteSalesRecordRoles
    THEN Untouched(Return([success |-> FALSE,
             message |-> "Insufficient permission to delete sales records."]))
    ELSE IF ~HasRow(OrderItemsOf(orders), id)
    THEN Untouched(Return([success |-> FALSE,
                           message |-> "Sales record not found."]))
    ELSE LET order_item == RowOf(OrderItemsOf(orders), id)
             found == HasRow(inventory.rows, order_item.itemId)
             restored == [inventory EXCEPT !.rows =
                             IncrementQuantity(inventory.rows, order_item.itemId,
                                               order_item.quantity)]
             logged == Append(inventoryLogs,
                              InventoryLog(Len(inventoryLogs) + 1,
                                           order_item.itemId, current_user.id,
                                           "Adjusted", order_item.quantity))
         IN IF found /\ failing = "InventoryItem.update"
            THEN Untouched(StoreFailure)
            ELSE IF found /\ failing = "InventoryLog.create"
            THEN Outcome(StoreFailure, <<"InventoryItem.update">>,
                         orders, restored, inventoryLogs, users)
            ELSE IF failing = "OrderItem.delete"
            THEN Outcome(StoreFailure,
                         IF found
                         THEN <<"InventoryItem.update", "InventoryLog.create">>
                         ELSE <<>>,
                         orders,
                         IF found THEN restored ELSE inventory,
                         IF found THEN logged ELSE inventoryLogs,
                         users)
            ELSE Outcome(
                Return([success |-> TRUE, message |-> SalesRecordDeletedMessage]),
                (IF found THEN <<"InventoryItem.update", "InventoryLog.create">>
                 ELSE <<>>) \o <<"OrderItem.delete">>,
                DeleteOrderItem(orders, id),
                IF found THEN restored ELSE inventory,
                IF found THEN logged ELSE inventoryLogs,
                users)

\* deleteSalesRecord against a store that does not fail
DeleteSalesRecordOutcome(id, current_user) ==
    DeleteSalesRecordOutcomeWhen(id, current_user, NoFault)

DeleteSalesRecord(id, current_user) ==
    /\ Len(inventoryLogs) < MaxInventoryLogs
    /\ StoreCall("deleteSalesRecord", [id |-> id], current_user,
                 DeleteSalesRecordOutcome(id, current_user))

\* One deleteSalesRecord request during which the store fails at `failing`
DeleteSalesRecordWhen(id, current_user, failing) ==
    /\ Len(inventoryLogs) < MaxInventoryLogs
    /\ \A i \in 1..Len(inventory.rows) : inventory.rows[i].quantity < MaxQuantity
    /\ StoreCall("deleteSalesRecord", [id |-> id, failing |-> failing],
                 current_user,
                 DeleteSalesRecordOutcomeWhen(id, current_user, failing))

UpdateSalesRecordRoles == { "Admin", "SalesManager" }

\* The sales record looked up before the role is tested
UpdateSalesRecordOutcomeLookupFirst(id, quantity, current_user) ==
    IF current_user.isNone THEN Untouched(Raise("AttributeError"))
    ELSE IF ~HasRow(OrderItemsOf(orders), id)
    THEN Untouched(RaiseHTTP(404, "Sales record not found."))
    ELSE IF current_user.role \notin UpdateSalesRecordRoles
    THEN Untouched(RaiseHTTP(403,
             "Insufficient permissions to update sales records."))
    ELSE Untouched(Raise("AttributeError"))

\* updateSalesRecord(id, quantity, salePrice, current_user): 403, then 404,
\* then 400; past them the data of the inventory update is computed from the
\* model class (line 72), as in addSalesRecord.
UpdateSalesRecordOutcome(id, quantity, current_user) ==
    IF current_user.isNone THEN Untouched(Raise("AttributeError"))
    ELSE IF current_user.role \notin UpdateSalesRecordRoles
    THEN Untouched(RaiseHTTP(403,
             "Insufficient permissions to update sales records."))
    ELSE IF ~HasRow(OrderItemsOf(orders), id)
    THEN Untouched(RaiseHTTP(404, "Sales record not found."))
    ELSE LET order_item == RowOf(OrderItemsOf(orders), id)
         IN IF ~HasRow(inventory.rows, order_item.itemId)
            THEN Untouched(Raise("AttributeError"))
            ELSE IF RowOf(inventory.rows, order_item.itemId).quantity < quantity
            THEN Untouched(RaiseHTTP(400, "Insufficient inventory available."))
            ELSE LET class_quantity ==
                         ModelClassField("InventoryItem", "quantity")
                 IN IF class_quantity.kind = "raise"
                    THEN Untouched(class_quantity)
                    ELSE Outcome(
                             Return([id |-> id, quantity |-> quantity,
                                     status |-> "Updated"]),
                             <<"InventoryItem.update", "OrderItem.update">>,
                             [i \in 1..Len(orders) |->
                                 [orders[i] EXCEPT !.items =
                                     [j \in 1..Len(orders[i].items) |->
                                         IF orders[i].items[j].id = id
                                         THEN [orders[i].items[j] EXCEPT
                                                  !.quantity = quantity]
                                         ELSE orders[i].items[j]]]],
                             [inventory EXCEPT !.rows =
                                 [i \in 1..Len(inventory.rows) |->
                                     IF inventory.rows[i].id = order_item.itemId
                                     THEN [inventory.rows[i] EXCEPT !.quantity =
                                              class_quantity.value - quantity]
                                     ELSE inventory.rows[i]]],
                             inventoryLogs, users)

UpdateSalesRecord(id, quantity, current_user) ==
    StoreCall("updateSalesRecord", [id |-> id, quantity |-> quantity],
              current_user, UpdateSalesRecordOutcome(id, quantity, current_user))

\* str.lower() on the role names a request may carry
Lower(text) ==
    CASE text \in {"Admin", "ADMIN", "admin"} -> "admin"
      [] text \in {"ReportingAnalyst", "reportinganalyst"} -> "reportinganalyst"
      [] text \in {"SalesManager", "salesmanager"} -> "salesmanager"
      [] OTHER -> text

\* Line 46: the role tested is the request's parameter `role`
DeleteCustomReportGate(role, current_user) ==
    Lower(role) \in {"admin", "reportinganalyst"}

\* deleteCustomReport(reportId, role, current_user): the row looked up and
\* deleted is a row of the InventoryItem table.
DeleteCustomReportOutcome(reportId, role, current_user) ==
    IF ~DeleteCustomReportGate(role, current_user)
    THEN Untouched(RaiseHTTP(403,
             "You do not have the permission to delete reports."))
    ELSE IF ~HasRow(inventory.rows, reportId)
    THEN Untouched(RaiseHTTP(404, "Report with ID not found."))
    ELSE Outcome(
             Return([success |-> TRUE, message |-> "Report deleted successfully."]),
             <<"InventoryItem.delete">>,
             orders, [inventory EXCEPT !.rows = DeleteRow(inventory.rows, reportId)],
             inventoryLogs, users)

DeleteCustomReport(reportId, role, current_user) ==
    StoreCall("deleteCustomReport", [reportId |-> reportId, role |-> role],
              current_user, DeleteCustomReportOutcome(reportId, role, current_user))

----------------------------------------------------------------------------
(* Handlers on the User table                                              *)

\* Rows the User table may hold (guard of the handlers that create one)
MaxUsers == 3

\* bcrypt.hashpw(password, salt): the hash carries its salt, and the digest
\* is determined by salt and password together.
Hashpw(password, salt) ==
    [wellFormed |-> TRUE, salt |-> salt, digest |-> <<salt, password>>]

\* A hashed_password that is no bcrypt hash, as createUser stores
PlainText(text) == [wellFormed |-> FALSE, text |-> text]

\* bcrypt.checkpw(password, hashed_password): hashes the password again with
\* the salt read from the stored hash and compares; a stored value it cannot
\* read a salt from makes it raise ValueError("Invalid salt").
Checkpw(password, hashed_password) ==
    IF ~hashed_password.wellFormed THEN RaiseWith("ValueError", "Invalid salt")
    ELSE Return(Hashpw(password, hashed_password.salt) = hashed_password)

\* find_unique(where={"username": username}) on User: the row or None
HasUsername(rows, username) ==
    \E i \in 1..Len(rows) : rows[i].username = username
RowOfUsername(rows, username) ==
    rows[CHOOSE i \in 1..Len(rows) : rows[i].username = username]

\* authenticateUser with the test of user.disabled left out
AuthenticateUserOutcomeDisabledIgnored(username, password) ==
    IF ~HasUsername(users.rows, username)
    THEN Untouched(RaiseWith("ValueError",
             "Authentication failed: User not found or account is disabled."))
    ELSE LET user == RowOfUsername(users.rows, username)
             matches == Checkpw(password, user.hashed_password)
         IN IF matches.kind = "raise" THEN Untouched(matches)
            ELSE IF matches.value
            THEN Untouched(Return([token |-> "ExampleToken", role |-> user.role]))
            ELSE Untouched(RaiseWith("ValueError",
                     "Authentication failed: Incorrect credentials provided."))

\* authenticateUser(username, password), lines 35-44
AuthenticateUserOutcome(username, password) ==
    IF \/ ~HasUsername(users.rows, username)
       \/ RowOfUsername(users.rows, username).disabled
    THEN Untouched(RaiseWith("ValueError",
             "Authentication failed: User not found or account is disabled."))
    ELSE LET user == RowOfUsername(users.rows, username)
             matches == Checkpw(password, user.hashed_password)
         IN IF matches.kind = "raise" THEN Untouched(matches)
            ELSE IF matches.value
            THEN Untouched(Return([token |-> "ExampleToken", role |-> user.role]))
            ELSE Untouched(RaiseWith("ValueError",
                     "Authentication failed: Incorrect credentials provided."))

\* The route of authenticateUser takes no authenticated actor.
AuthenticateUser(username, password) ==
    StoreCall("authenticateUser", [username |-> username, password |-> password],
              NoUser, AuthenticateUserOutcome(username, password))

\* Roles createUser lets through
CreateUserRoles == { "Admin", "HumanResourcesManager" }

\* CreateUserResponse(message=..., user_id=..., error=...)
CreateUserResponse(message, user_id, error) ==
    [message |-> message, user_id |-> user_id, error |-> error]

\* createUser(name, email, role, current_user), lines 56-84: the gate, the
\* lookup of a User whose username is the email, and the create of a User
\* whose username is the name.  username is the unique field find_unique
\* looks rows up by, so a create with a username already there fails inside
\* the try block and its message becomes the response's error.
CreateUserOutcome(name, email, role, current_user) ==
    IF current_user.isNone THEN Untouched(Raise("AttributeError"))
    ELSE IF current_user.role \notin CreateUserRoles
    THEN Untouched(RaiseHTTP(403,
             "Permission denied. Unauthorized to create users."))
    ELSE IF HasUsername(users.rows, email)
    THEN Untouched(Return(CreateUserResponse("Failed to create user.", Nothing,
             "A user with this email already exists.")))
    ELSE IF HasUsername(users.rows, name)
    THEN Untouched(Return(CreateUserResponse("Failed to create user.", Nothing,
             "Unique constraint failed on the fields: (username)")))
    ELSE Outcome(Return(CreateUserResponse("User created successfully.",
                                           Some(users.nextId), None)),
                 << "User.create" >>, orders, inventory, inventoryLogs,
                 CreateRow(users,
                           UserRow(users.nextId, name, role,
                                   PlainText("hashed_password_placeholder"),
                                   FALSE, NoProfile)))

CreateUser(name, email, role, current_user) ==
    /\ Len(users.rows) < MaxUsers
    /\ StoreCall("createUser", [name |-> name, email |-> email, role |-> role],
                 current_user, CreateUserOutcome(name, email, role, current_user))

\* ContactDetails(email=..., phone=...), both Optional[str]
ContactDetails(email, phone) == [email |-> email, phone |-> phone]

\* update(where={"id": staffId}, data={"role": role}) on User
SetRole(rows, id, role) ==
    [i \in 1..Len(rows) |->
        IF rows[i].id = id THEN [rows[i] EXCEPT !.role = role] ELSE rows[i]]

\* update(where={"userId": staffId}, data=profile_updates) on Profile: the
\* fields named in the data are replaced; without a Profile row the update
\* finds nothing and returns None.
UpdateProfile(rows, id, contactDetails) ==
    [i \in 1..Len(rows) |->
        IF rows[i].id = id /\ ~rows[i].profile.isNone
        THEN [rows[i] EXCEPT !.profile =
                 Profile(IF Truthy(contactDetails.email)
                         THEN contactDetails.email ELSE rows[i].profile.email,
                         IF Truthy(contactDetails.phone)
                         THEN contactDetails.phone ELSE rows[i].profile.phone)]
        ELSE rows[i]]

\* UpdateStaffResponse(success=..., updatedFields=..., message=...)
UpdateStaffResponse(success, updatedFields, message) ==
    [success |-> success, updatedFields |-> updatedFields, message |-> message]

\* updateStaffMember(staffId, role, newSalary, contactDetails, current_user),
\* lines 77-110: current_user is never read.  The role is written first; the
\* Payroll upsert of line 89 is called with create= and update= instead of
\* data= and raises TypeError before it reaches the store; the profile
\* update comes last.
UpdateStaffMemberOutcome(staffId, role, newSalary, contactDetails, current_user) ==
    IF ~HasRow(users.rows, staffId)
    THEN Untouched(Return(UpdateStaffResponse(FALSE, <<>>,
                                              "Staff member not found.")))
    ELSE LET staff_member == RowOf(users.rows, staffId)
             roleChanged == staff_member.role # role
             afterRole == IF roleChanged
                          THEN [users EXCEPT !.rows = SetRole(@, staffId, role)]
                          ELSE users
             roleWrite == IF roleChanged THEN << "User.update" >> ELSE <<>>
             roleField == IF roleChanged THEN << "role" >> ELSE <<>>
         IN IF ~newSalary.isNone
            THEN Outcome(Raise("TypeError"), roleWrite, orders, inventory,
                         inventoryLogs, afterRole)
            ELSE LET emailField == IF Truthy(contactDetails.email)
                                   THEN << "email" >> ELSE <<>>
                     phoneField == IF Truthy(contactDetails.phone)
                                   THEN << "phone" >> ELSE <<>>
                     profile_updates == emailField \o phoneField
                     written == /\ profile_updates # <<>>
                                /\ ~staff_member.profile.isNone
                 IN Outcome(Return(UpdateStaffResponse(TRUE,
                                roleField \o profile_updates,
                                "Staff member details successfully updated.")),
                            roleWrite \o (IF written THEN << "Profile.update" >>
                                                     ELSE <<>>),
                            orders, inventory, inventoryLogs,
                            [afterRole EXCEPT !.rows =
                                UpdateProfile(@, staffId, contactDetails)])

UpdateStaffMember(staffId, role, newSalary, contactDetails, current_user) ==
    StoreCall("updateStaffMember",
              [staffId |-> staffId, role |-> role, newSalary |-> newSalary,
               contactDetails |-> contactDetails],
              current_user,
              UpdateStaffMemberOutcome(staffId, role, newSalary, contactDetails,
                                       current_user))

\* What the source leaves to the build: whether the interpreter evaluates a
\* function's annotations when the def statement runs ("eager") or on demand
\* ("deferred"), and whether the schema's relation User.profiles holds one
\* Profile (as Profile.update(where={"userId": ...}) requires) or a list (as
\* user.profiles[0] requires).
Builds == [annotations : {"eager", "deferred"}, profiles : {"one", "many"}]

\* The keys of update_data, lines 52-62, as a dict: the assignment of line 60
\* replaces the value line 58 stored under "profiles".
UpdateData(username, role, email, phone, disabled) ==
    LET d1 == IF username # None THEN DictSet(<<>>, "username", username)
              ELSE <<>>
        d2 == IF role # None THEN DictSet(d1, "role", role) ELSE d1
        d3 == IF email # None
              THEN DictSet(d2, "profiles", [field |-> "email", value |-> email])
              ELSE d2
        d4 == IF phone # None
              THEN DictSet(d3, "profiles", [field |-> "phone", value |-> phone])
              ELSE d3
    IN IF ~disabled.isNone THEN DictSet(d4, "disabled", disabled.value) ELSE d4

\* update(where={"id": userId}, data=update_data) on User: the row after the
\* update.  The nested {"update": {...}} replaces one field of the profile.
UpdatedUser(user, data) ==
    LET named == IF "username" \in DictKeys(data)
                 THEN [user EXCEPT !.username = DictGet(data, "username")]
                 ELSE user
        roled == IF "role" \in DictKeys(data)
                 THEN [named EXCEPT !.role = DictGet(data, "role")]
                 ELSE named
        flagged == IF "disabled" \in DictKeys(data)
                   THEN [roled EXCEPT !.disabled = DictGet(data, "disabled")]
                   ELSE roled
    IN IF "profiles" \notin DictKeys(data) THEN flagged
       ELSE LET nested == DictGet(data, "profiles")
            IN [flagged EXCEPT !.profile =
                   IF nested.field = "email"
                   THEN Profile(nested.value, user.profile.phone)
                   ELSE Profile(user.profile.email, nested.value)]

\* UpdateUserResponse(success=..., message=..., updatedUser=...)
UpdateUserResponse(success, message, updatedUser) ==
    [success |-> success, message |-> message, updatedUser |-> updatedUser]

\* updateUser(userId, username, role, email, phone, disabled, current_user),
\* lines 18-70.  The return annotation of line 26 names a class defined on
\* line 73: where annotations are evaluated eagerly the def statement raises
\* NameError and the function does not exist.  The update is one store
\* call: it fails as a whole when the new username belongs to another row,
\* when the nested profile update has no Profile row to update, or when
\* profiles is a list relation, whose nested update needs a where clause.
UpdateUserOutcome(userId, username, role, email, phone, disabled, current_user, build) ==
    IF build.annotations = "eager" THEN Untouched(Raise("NameError"))
    ELSE IF current_user.isNone THEN Untouched(Raise("AttributeError"))
    ELSE IF current_user.role # "Admin"
    THEN Untouched(Return(UpdateUserResponse(FALSE,
             "Authorization error: Only an Admin can update user details.",
             Nothing)))
    ELSE IF ~HasRow(users.rows, userId)
    THEN Untouched(Return(UpdateUserResponse(FALSE,
             "prisma.models.User not found.", Nothing)))
    ELSE LET user == RowOf(users.rows, userId)
             update_data == UpdateData(username, role, email, phone, disabled)
             taken == /\ "username" \in DictKeys(update_data)
                      /\ \E i \in 1..Len(users.rows) :
                             /\ users.rows[i].id # userId
                             /\ users.rows[i].username = username
             nested == "profiles" \in DictKeys(update_data)
         IN IF taken THEN Untouched(Raise("UniqueViolationError"))
            ELSE IF nested /\ (build.profiles = "many" \/ user.profile.isNone)
            THEN Untouched(Raise("DataError"))
            ELSE LET updated_user == UpdatedUser(user, update_data)
                 IN Outcome(Return(UpdateUserResponse(TRUE,
                                "prisma.models.User updated successfully.",
                                Some(updated_user))),
                            << "User.update" >>, orders, inventory,
                            inventoryLogs,
                            [users EXCEPT !.rows =
                                [i \in 1..Len(@) |->
                                    IF @[i].id = userId THEN updated_user
                                    ELSE @[i]]])

UpdateUser(userId, username, role, email, phone, disabled, current_user, build) ==
    StoreCall("updateUser",
              [userId |-> userId, username |-> username, role |-> role,
               email |-> email, phone |-> phone, disabled |-> disabled,
               build |-> build],
              current_user,
              UpdateUserOutcome(userId, username, role, email, phone, disabled,
                                current_user, build))

----------------------------------------------------------------------------
(* getShipments                                                            *)

\* An Order row as getShipments reads it: placedAt, status, and its items
\* with their inventory item included (None when the item row is gone)
NoItem == [isNone |-> TRUE]
ItemNamed(name) == [isNone |-> FALSE, name |-> name]
ShipmentOrder(id, placedAt, status, items) ==
    [id |-> id, placedAt |-> placedAt, status |-> status, items |-> items]

\* OrderStatus(status=...)
OrderStatus(status) == [status |-> status]

\* Lines 62-68: the where dict.  A date and an OrderStatus object are truthy
\* whenever they are not None.  Line 66 indexes where_clauses["placedAt"],
\* a key only line 64 creates.
WhereClauses(from_date, to_date, status) ==
    LET afterFrom == IF ~from_date.isNone
                     THEN DictSet(<<>>, "placedAt",
                                  DictSet(<<>>, "gte", from_date.value))
                     ELSE <<>>
        afterTo == IF to_date.isNone THEN Return(afterFrom)
                   ELSE IF "placedAt" \notin DictKeys(afterFrom)
                   THEN Raise("KeyError")
                   ELSE Return(DictSet(afterFrom, "placedAt",
                                       DictSet(DictGet(afterFrom, "placedAt"),
                                               "lte", to_date.value)))
    IN IF afterTo.kind = "raise" THEN afterTo
       ELSE IF ~status.isNone
       THEN Return(DictSet(afterTo.value, "status", status.value.status))
       ELSE afterTo

\* One row against the where dict: every key present must hold
MatchesWhere(order, where) ==
    /\ "placedAt" \in DictKeys(where) =>
          LET range == DictGet(where, "placedAt")
          IN /\ "gte" \in DictKeys(range) =>
                    DateLE(DictGet(range, "gte"), order.placedAt)
             /\ "lte" \in DictKeys(range) =>
                    DateLE(order.placedAt, DictGet(range, "lte"))
    /\ "status" \in DictKeys(where) => order.status = DictGet(where, "status")

\* find_many(where=where_clauses, include=...) on Order
FindManyShipmentOrders(rows, where) ==
    SelectSeq(rows, LAMBDA order : MatchesWhere(order, where))

\* [item.item.name for item in order.items if item.item]
ContentsOf(items) ==
    LET kept == SelectSeq(items, LAMBDA item : ~item.item.isNone)
    IN [i \in 1..Len(kept) |-> kept[i].item.name]

\* Shipment(shipment_date=..., contents=..., supplier_info=...,
\* delivery_status=...)
Shipment(order) ==
    [shipment_date |-> order.placedAt, contents |-> ContentsOf(order.items),
     supplier_info |-> "Supplier Details Unavailable",
     delivery_status |-> OrderStatus(order.status)]

\* getShipments(from_date, to_date, status, current_user), lines 62-81:
\* current_user is never read.
GetShipmentsOutcome(from_date, to_date, status, current_user) ==
    LET where == WhereClauses(from_date, to_date, status)
    IN IF where.kind = "raise" THEN Untouched(where)
       ELSE LET found == FindManyShipmentOrders(orders, where.value)
            IN Untouched(Return([shipments |->
                                    [i \in 1..Len(found) |-> Shipment(found[i])]]))

GetShipments(from_date, to_date, status, current_user) ==
    StoreCall("getShipments",
              [from_date |-> from_date, to_date |-> to_date, status |-> status],
              current_user,
              GetShipmentsOutcome(from_date, to_date, status, current_user))

----------------------------------------------------------------------------
(* The store-writing handlers as a system                                  *)

\* Actors of the store-writing handlers
StoreActors ==
    { NoUser, StaffUser(1, "Admin"), StaffUser(2, "SalesManager"),
      StaffUser(4, "CustomerServiceRepresentative") }

\* Contents of the InventoryItem table at the start; the second has no row
\* for item 2
InitialInventories ==
    { << InventoryItem(1, "Fir", 2), InventoryItem(2, "Pine", 0) >>,
      << InventoryItem(1, "Fir", 1) >>,
      << InventoryItem(1, "Fir", 0), InventoryItem(2, "Pine", 3) >> }

\* Contents of the Order table at the start
InitialOrders ==
    LET first == StoredOrder(1, << StoredOrderItem(1, 1, "Fir", 1),
                                   StoredOrderItem(2, 2, "Pine", 2) >>)
        second == StoredOrder(2, << StoredOrderItem(3, 1, "Fir", 2) >>)
    IN { <<>>, <<first>>, <<first, second>> }

InitStore ==
    /\ roleEnum = RoleNames
    /\ orders \in InitialOrders
    /\ inventory \in { [nextId |-> 3, rows |-> r] : r \in InitialInventories }
    /\ inventoryLogs = <<>>
    /\ users = [nextId |-> 1, rows |-> <<>>]
    /\ createdUsers = <<>>
    /\ requests = <<>>
    /\ call = NoCall

NextStore ==
    \/ Complete
    \/ \E current_user \in StoreActors :
        \/ \E product_id \in {1, 2}, quantity \in {1, 2} :
               AddSalesRecord(product_id, quantity, current_user)
        \/ CreateInventoryItem("Spruce", 5, current_user)
        \/ \E orderId \in {1, 3} : DeleteOrder(orderId, current_user)
        \/ \E id \in {2, 3, 4} : DeleteSalesRecord(id, current_user)
        \/ \E id \in {2, 4}, quantity \in {1, 3} :
               UpdateSalesRecord(id, quantity, current_user)
        \/ \E role \in {"Admin", "SalesManager"} :
               DeleteCustomReport(2, role, current_user)

SpecStore == InitStore /\ [][NextStore]_vars

----------------------------------------------------------------------------
(* The two-write handlers against a store that can fail                    *)

\* Writes a failure is injected at
Faults ==
    { NoFault, "InventoryItem.update", "InventoryLog.create",
      "OrderItem.delete" }

NextFaults ==
    \/ Complete
    \/ \E current_user \in StoreActors, failing \in Faults :
        \/ \E product_id \in {1, 2}, quantity \in {1, 2} :
               AddSalesRecordWhen(product_id, quantity, current_user, failing)
        \/ \E id \in {1, 2, 3, 4} : DeleteSalesRecordWhen(id, current_user, failing)

SpecFaults == InitStore /\ [][NextFaults]_vars

----------------------------------------------------------------------------
(* Concurrent addSalesRecord requests                                      *)

InitRequests ==
    /\ roleEnum = RoleNames
    /\ orders = <<>>
    /\ inventory \in { [nextId |-> 3, rows |-> r] : r \in InitialInventories }
    /\ inventoryLogs = <<>>
    /\ users = [nextId |-> 1, rows |-> <<>>]
    /\ createdUsers = <<>>
    /\ requests = <<>>
    /\ call = NoCall

NextRequests ==
    \/ \E product_id \in {1, 2}, quantity \in {1, 2},
          current_user \in {NoUser, StaffUser(2, "SalesManager")} :
           Receive(product_id, quantity, current_user)
    \/ \E r \in 1..MaxRequests : Resume(r)

SpecRequests == InitRequests /\ [][NextRequests]_vars

----------------------------------------------------------------------------
(* The handlers on the User table as a system                              *)

\* Actors of the handlers on the User table
UserActors ==
    { NoUser, StaffUser(1, "Admin"), StaffUser(7, "HumanResourcesManager"),
      StaffUser(8, "SalesManager") }

\* Contents of the User table at the start: an administrator, a disabled
\* account, both with bcrypt hashes of their passwords
InitialUsers ==
    LET carol == UserRow(1, "carol", "Admin", Hashpw("fir", "s1"), FALSE,
                         Profile("carol@farm.example", None))
        dave == UserRow(2, "dave", "SalesManager", Hashpw("pine", "s2"), TRUE,
                        NoProfile)
    IN { [nextId |-> 1, rows |-> <<>>],
         [nextId |-> 2, rows |-> <<carol>>],
         [nextId |-> 3, rows |-> <<carol, dave>>] }

InitUsers ==
    /\ roleEnum = RoleNames
    /\ orders = <<>>
    /\ inventory = [nextId |-> 1, rows |-> <<>>]
    /\ inventoryLogs = <<>>
    /\ users \in InitialUsers
    /\ createdUsers = <<>>
    /\ requests = <<>>
    /\ call = NoCall

NextUsers ==
    \/ Complete
    \/ \E username \in {"carol", "dave", "alice"}, password \in {"fir", "pine"} :
           AuthenticateUser(username, password)
    \/ \E name \in {"alice", "bob"},
          email \in {"alice@farm.example", "bob@farm.example"},
          current_user \in UserActors :
           CreateUser(name, email, "SalesManager", current_user)
    \/ \E staffId \in {1, 3}, role \in {"Admin", "InventoryManager"},
          newSalary \in {Nothing, Some(100)},
          contactDetails \in {ContactDetails(None, None),
                              ContactDetails("new@farm.example", "")},
          current_user \in {NoUser, StaffUser(8, "SalesManager")} :
           UpdateStaffMember(staffId, role, newSalary, contactDetails,
                             current_user)

SpecUsers == InitUsers /\ [][NextUsers]_vars

----------------------------------------------------------------------------
(* updateUser as a system                                                  *)

NextUserUpdates ==
    \/ Complete
    \/ \E userId \in {1, 3}, username \in {None, "dave", "erin"},
          role \in {None, "InventoryManager"},
          email \in {None, "erin@farm.example"}, phone \in {None, "555"},
          disabled \in {Nothing, Some(TRUE)},
          current_user \in {NoUser, StaffUser(1, "Admin"),
                            StaffUser(8, "SalesManager")},
          build \in Builds :
           UpdateUser(userId, username, role, email, phone, disabled,
                      current_user, build)

SpecUserUpdates == InitUsers /\ [][NextUserUpdates]_vars

----------------------------------------------------------------------------
(* getShipments as a system                                                *)

\* Contents of the Order table at the start
InitialShipmentOrders ==
    LET first == ShipmentOrder(1, Date(2024, 1, 5), "Pending",
                     << [id |-> 1, item |-> ItemNamed("Fir")],
                        [id |-> 2, item |-> NoItem] >>)
        second == ShipmentOrder(2, Date(2024, 2, 10), "Shipped",
                      << [id |-> 3, item |-> ItemNamed("Pine")] >>)
        third == ShipmentOrder(3, Date(2024, 3, 1), "Pending", <<>>)
    IN { <<>>, <<first, second>>, <<first, second, third>> }

\* Values of from_date and to_date
ShipmentDates == { Nothing, Some(Date(2024, 1, 5)), Some(Date(2024, 2, 20)) }

\* Values of status
ShipmentStatuses ==
    { Nothing, Some(OrderStatus("Pending")), Some(OrderStatus("Shipped")) }

InitShipments ==
    /\ roleEnum = RoleNames
    /\ orders \in InitialShipmentOrders
    /\ inventory = [nextId |-> 1, rows |-> <<>>]
    /\ inventoryLogs = <<>>
    /\ users = [nextId |-> 1, rows |-> <<>>]
    /\ createdUsers = <<>>
    /\ requests = <<>>
    /\ call = NoCall

NextShipments ==
    \/ Complete
    \/ \E from_date \in ShipmentDates, to_date \in ShipmentDates,
          status \in ShipmentStatuses,
          current_user \in {NoUser, StaffUser(1, "Admin")} :
           GetShipments(from_date, to_date, status, current_user)

SpecShipments == InitShipments /\ [][NextShipments]_vars

----------------------------------------------------------------------------
(* Claims on the permission gates                                          *)

\* The handler of the call went past its permission check
Allowed == call.queried

\* C11: the permission gate is exact set membership: an operation is allowed
\* if and only if the actor's role is a member of the operation's
\* allowed-role set, without hierarchy.  analyzeSalesTrends allows exactly
\* SalesManager and AnalyticsManager and reads no order for anybody else;
\* getSuppliers allows exactly Admin and SupplyChainCoordinator.
C11_ExactSetMembership ==
    /\ call.op = "analyzeSalesTrends" =>
           /\ Allowed <=> (/\ ~call.current_user.isNone
                           /\ call.current_user.role
                                  \in {"SalesManager", "AnalyticsManager"})
           /\ ~Allowed => call.found = <<>>
    /\ call.op = "getSuppliers" =>
           (Allowed <=> (/\ ~call.current_user.isNone
                         /\ call.current_user.role
                                \in {"Admin", "SupplyChainCoordinator"}))

\* Members of a sequence
Range(list) == { list[i] : i \in 1..Len(list) }

\* The call in `call` came from an actor that is a user with a role
ActorHasRole == ~call.current_user.isNone

\* Allowed-role sets of the state-changing operations: those the handlers
\* test, and for the handlers that test none the set of the sibling handler
\* on the same entity (updateSalesRecord, getInventoryItemDetails).
AllowedRolesOf(op) ==
    CASE op = "addSalesRecord" -> {"Admin", "SalesManager"}
      [] op = "createInventoryItem" -> {"Admin", "InventoryManager"}
      [] op = "deleteOrder" -> {"Admin", "OrderFulfillmentOfficer"}
      [] op = "deleteSalesRecord" -> {"Admin", "SalesManager"}
      [] op = "updateSalesRecord" -> {"Admin", "SalesManager"}

\* C12: every state-changing operation has an allowed-role set, and an actor
\* whose role is outside it cannot cause any entity-store write through that
\* operation.
C12_NoWriteOutsideAllowedRoles ==
    (/\ call.op \in {"addSalesRecord", "createInventoryItem", "deleteOrder",
                     "deleteSalesRecord", "updateSalesRecord"}
     /\ call.writes # <<>>)
        => (ActorHasRole /\ call.current_user.role \in AllowedRolesOf(call.op))

\* C13: a denial distinguishes forbidden from not-found from validation
\* failure.  updateSalesRecord raises 403 when the role is neither Admin nor
\* SalesManager, else 404 when the sales record is absent, else 400 when the
\* requested quantity exceeds the item's stock: three distinct outcomes, the
\* first applicable one winning.  deleteOrder answers a forbidden actor and a
\* missing order with distinct messages.
C13_DistinctDenials ==
    /\ (call.op = "updateSalesRecord" /\ ActorHasRole) =>
          LET permitted == call.current_user.role \in {"Admin", "SalesManager"}
              records == OrderItemsOf(call.before.orders)
              present == HasRow(records, call.args.id)
              itemId == RowOf(records, call.args.id).itemId
              stocked == HasRow(call.before.inventory.rows, itemId)
              short == RowOf(call.before.inventory.rows, itemId).quantity
                           < call.args.quantity
          IN /\ ~permitted =>
                   /\ call.result.kind = "raise"
                   /\ call.result.error = "HTTPException"
                   /\ call.result.status_code = 403
             /\ (permitted /\ ~present) =>
                   /\ call.result.kind = "raise"
                   /\ call.result.error = "HTTPException"
                   /\ call.result.status_code = 404
             /\ (permitted /\ present /\ stocked /\ short) =>
                   /\ call.result.kind = "raise"
                   /\ call.result.error = "HTTPException"
                   /\ call.result.status_code = 400
             /\ (call.result.kind = "raise" /\ call.result.error = "HTTPException")
                   => /\ call.writes = <<>>
                      /\ call.result.detail =
                           CASE call.result.status_code = 403 ->
                                  "Insufficient permissions to update sales records."
                             [] call.result.status_code = 404 ->
                                  "Sales record not found."
                             [] call.result.status_code = 400 ->
                                  "Insufficient inventory available."
    /\ (call.op = "deleteOrder" /\ ActorHasRole) =>
          LET permitted == call.current_user.role
                               \in {"Admin", "OrderFulfillmentOfficer"}
              present == HasRow(call.before.orders, call.args.orderId)
          IN /\ ~permitted =>
                   call.result = Return([success |-> FALSE,
                                         message |-> "Permission denied."])
             /\ (permitted /\ ~present) =>
                   call.result = Return([success |-> FALSE,
                                         message |-> "Order not found."])

\* An actor without the role asked to update a sales record that does not
\* exist, and was answered 403, not 404.
C13_Witness ==
    /\ call.op = "updateSalesRecord"
    /\ ActorHasRole
    /\ call.current_user.role = "CustomerServiceRepresentative"
    /\ ~HasRow(OrderItemsOf(call.before.orders), call.args.id)
    /\ call.result.kind = "raise"
    /\ call.result.status_code = 403

\* C14: every route returns the service's typed result or, for any exception
\* the service raised, a response with status 500 and body {"error":
\* message}; no exception leaves a route handler.
C14_RoutesAnswerEveryFailure ==
    call # NoCall =>
        /\ call.http.kind = "ok"
        /\ call.result.kind = "ok" =>
               call.http.value = [status_code |-> 200, body |-> call.result.value]
        /\ call.result.kind = "raise" =>
               call.http.value = [status_code |-> 500,
                                  body |-> [error |-> call.result]]

\* C15: addSalesRecord on an existing item with enough stock reduces the
\* item's quantity by the requested quantity, creates one InventoryLog
\* ('Sold', amount = quantity, changedBy = the actor), returns its id as
\* sale_id, and changes no other item or log.
C15_AddSalesRecordEffect ==
    (/\ call.op = "addSalesRecord"
     /\ ActorHasRole
     /\ HasRow(call.before.inventory.rows, call.args.product_id)
     /\ RowOf(call.before.inventory.rows, call.args.product_id).quantity
            >= call.args.quantity)
        => /\ call.result.kind = "ok"
           /\ inventory.rows =
                  IncrementQuantity(call.before.inventory.rows,
                                    call.args.product_id, 0 - call.args.quantity)
           /\ inventoryLogs =
                  Append(call.before.inventoryLogs,
                         InventoryLog(Len(call.before.inventoryLogs) + 1,
                                      call.args.product_id, call.current_user.id,
                                      "Sold", call.args.quantity))
           /\ call.result.value.sale_id = Len(inventoryLogs)
           /\ orders = call.before.orders

\* C16: deleteOrder by an Admin or OrderFulfillmentOfficer on an existing
\* order adds each order item's quantity to its inventory item, deletes the
\* order and returns success = true.
C16_DeleteOrderRestoresInventory ==
    (/\ call.op = "deleteOrder"
     /\ ActorHasRole
     /\ call.current_user.role \in {"Admin", "OrderFulfillmentOfficer"}
     /\ HasRow(call.before.orders, call.args.orderId))
        => /\ call.result.kind = "ok"
           /\ call.result.value.success
           /\ ~HasRow(orders, call.args.orderId)
           /\ \A i \in 1..Len(inventory.rows) :
                  inventory.rows[i].quantity =
                      call.before.inventory.rows[i].quantity
                          + SumQuantityOfItem(
                                RowOf(call.before.orders, call.args.orderId).items,
                                inventory.rows[i].id)

\* C17: deleteSalesRecord by a SalesManager or Admin on an existing record
\* whose inventory item exists adds the record's quantity to the item,
\* creates one 'Adjusted' log of that amount, deletes the record and returns
\* success; and the message saying that inventory was restored is returned
\* only if the inventory was restored.
C17_DeleteSalesRecordRestores ==
    (/\ call.op = "deleteSalesRecord"
     /\ ActorHasRole
     /\ call.current_user.role \in {"SalesManager", "Admin"}
     /\ HasRow(OrderItemsOf(call.before.orders), call.args.id))
        => LET record == RowOf(OrderItemsOf(call.before.orders), call.args.id)
           IN /\ HasRow(call.before.inventory.rows, record.itemId) =>
                    /\ inventory.rows =
                           IncrementQuantity(call.before.inventory.rows,
                                             record.itemId, record.quantity)
                    /\ inventoryLogs =
                           Append(call.before.inventoryLogs,
                                  InventoryLog(Len(call.before.inventoryLogs) + 1,
                                               record.itemId, call.current_user.id,
                                               "Adjusted", record.quantity))
                    /\ ~HasRow(OrderItemsOf(orders), call.args.id)
                    /\ call.result.kind = "ok"
                    /\ call.result.value.success
              /\ (/\ call.result.kind = "ok"
                  /\ call.result.value.message = SalesRecordDeletedMessage)
                    => /\ "InventoryItem.update" \in Range(call.writes)
                       /\ HasRow(inventory.rows, record.itemId)
                       /\ RowOf(inventory.rows, record.itemId).quantity =
                              RowOf(call.before.inventory.rows,
                                    record.itemId).quantity + record.quantity

\* C19: a report is deleted only when the authenticated actor holds an
\* authorized role (Admin or ReportingAnalyst), whatever parameters the
\* request carries.
C19_OnlyAuthorizedActorsDelete ==
    (call.op = "deleteCustomReport" /\ call.writes # <<>>)
        => (ActorHasRole
            /\ call.current_user.role \in {"Admin", "ReportingAnalyst"})

----------------------------------------------------------------------------
(* Claims on the User table                                                *)

\* C18: authenticateUser returns a token and role only when a user with the
\* given username exists, is not disabled, and the supplied password matches
\* the stored hash; in every other case it raises ValueError and returns no
\* token, and a disabled user is rejected whether or not the password is
\* correct.
C18_TokenOnlyForEnabledUserWithPassword ==
    call.op = "authenticateUser" =>
        LET rows == call.before.users.rows
            known == \E i \in 1..Len(rows) :
                         rows[i].username = call.args.username
            user == rows[CHOOSE i \in 1..Len(rows) :
                             rows[i].username = call.args.username]
            matches == /\ user.hashed_password.wellFormed
                       /\ user.hashed_password.digest =
                              << user.hashed_password.salt, call.args.password >>
            accepted == known /\ ~user.disabled /\ matches
        IN /\ accepted <=> call.result.kind = "ok"
           /\ accepted =>
                  call.result.value = [token |-> "ExampleToken",
                                       role |-> user.role]
           /\ ~accepted =>
                  /\ call.result.kind = "raise"
                  /\ call.result.error = "ValueError"
           /\ call.writes = <<>>
           /\ users = call.before.users

\* A disabled user gave the right password and was refused.
C18_Witness ==
    /\ call.op = "authenticateUser"
    /\ call.args = [username |-> "dave", password |-> "pine"]
    /\ HasUsername(call.before.users.rows, "dave")
    /\ RowOfUsername(call.before.users.rows, "dave").disabled
    /\ Checkpw("pine", RowOfUsername(call.before.users.rows,
                                     "dave").hashed_password) = Return(TRUE)
    /\ call.result.kind = "raise"
    /\ call.result.error = "ValueError"

\* C20: createUser prevents duplicates: a call by a permitted actor whose
\* email was used by an earlier successful createUser returns the failure
\* 'A user with this email already exists.' and creates no user, so at most
\* one user is created per email.
C20_OneUserPerEmail ==
    /\ \A i, j \in 1..Len(createdUsers) :
           createdUsers[i].email = createdUsers[j].email => i = j
    /\ (/\ call.op = "createUser"
        /\ ActorHasRole
        /\ call.current_user.role \in {"Admin", "HumanResourcesManager"}
        /\ \E i \in 1..Len(call.before.createdUsers) :
               call.before.createdUsers[i].email = call.args.email)
          => /\ call.result.kind = "ok"
             /\ call.result.value.error =
                    "A user with this email already exists."
             /\ users = call.before.users

----------------------------------------------------------------------------
(* Claims on getShipments                                                  *)

\* The filter a caller supplied holds of an order; an absent filter holds of
\* every order
SuppliedFiltersHold(order, args) ==
    /\ args.from_date.isNone \/ DateLE(args.from_date.value, order.placedAt)
    /\ args.to_date.isNone \/ DateLE(order.placedAt, args.to_date.value)
    /\ args.status.isNone \/ order.status = args.status.value.status

\* C21: getShipments treats from_date, to_date and status as independently
\* optional filters: for every combination of present and absent values it
\* returns, without failing, the shipments matching exactly the supplied
\* filters; with to_date supplied and from_date absent, those placed on or
\* before to_date.
C21_IndependentOptionalFilters ==
    call.op = "getShipments" =>
        LET matching == SelectSeq(call.before.orders,
                            LAMBDA order : SuppliedFiltersHold(order, call.args))
        IN /\ call.result.kind = "ok"
           /\ call.result.value.shipments =
                  [i \in 1..Len(matching) |-> Shipment(matching[i])]

----------------------------------------------------------------------------
(* Claims on updateUser                                                    *)

\* C22: updateUser accepts partial or full updates: by an Admin on an
\* existing user it applies every supplied (non-null) field among username,
\* role, email, phone, disabled and leaves every field supplied as null
\* unchanged; when both email and phone are supplied in one call, both are
\* updated.  (Stated for a user that has a profile and a username no other
\* user holds.)
C22_PartialOrFullUpdate ==
    (/\ call.op = "updateUser"
     /\ ActorHasRole
     /\ call.current_user.role = "Admin"
     /\ HasRow(call.before.users.rows, call.args.userId)
     /\ ~RowOf(call.before.users.rows, call.args.userId).profile.isNone
     /\ \A i \in 1..Len(call.before.users.rows) :
            call.before.users.rows[i].username = call.args.username
                => call.before.users.rows[i].id = call.args.userId)
        => LET old == RowOf(call.before.users.rows, call.args.userId)
               new == RowOf(users.rows, call.args.userId)
               Applied(supplied, was) == IF supplied # None THEN supplied ELSE was
           IN /\ call.result.kind = "ok"
              /\ call.result.value.success
              /\ HasRow(users.rows, call.args.userId)
              /\ new.username = Applied(call.args.username, old.username)
              /\ new.role = Applied(call.args.role, old.role)
              /\ new.profile.email = Applied(call.args.email, old.profile.email)
              /\ new.profile.phone = Applied(call.args.phone, old.profile.phone)
              /\ new.disabled = IF call.args.disabled.isNone THEN old.disabled
                                ELSE call.args.disabled.value
              /\ new.hashed_password = old.hashed_password
              /\ new.id = old.id

----------------------------------------------------------------------------
(* Claims on sequences of writes                                           *)

\* In deleteSalesRecord a failure after the inventory increment leaves the
\* stock restored and the sales record still present, and the caller
\* receives an error.
DeleteSalesRecordLeftHalfDone ==
    (/\ call.op = "deleteSalesRecord"
     /\ call.args.failing \in {"InventoryLog.create", "OrderItem.delete"}
     /\ ActorHasRole
     /\ call.current_user.role \in {"SalesManager", "Admin"}
     /\ HasRow(OrderItemsOf(call.before.orders), call.args.id)
     /\ HasRow(call.before.inventory.rows,
               RowOf(OrderItemsOf(call.before.orders), call.args.id).itemId))
        => LET record == RowOf(OrderItemsOf(call.before.orders), call.args.id)
           IN /\ call.result.kind = "raise"
              /\ inventory.rows =
                     IncrementQuantity(call.before.inventory.rows,
                                       record.itemId, record.quantity)
              /\ orders = call.before.orders
              /\ call.args.failing = "InventoryLog.create"
                     => inventoryLogs = call.before.inventoryLogs

\* If addSalesRecord's InventoryLog create fails after the checks passed and
\* the decrement went through, the store is left with the decremented
\* quantity and no matching log entry, and the caller receives an error.
AddSalesRecordLeftHalfDone ==
    (/\ call.op = "addSalesRecord"
     /\ call.args.failing = "InventoryLog.create"
     /\ ActorHasRole
     /\ HasRow(call.before.inventory.rows, call.args.product_id)
     /\ RowOf(call.before.inventory.rows, call.args.product_id).quantity
            >= call.args.quantity)
        => /\ call.result.kind = "raise"
           /\ inventory.rows =
                  IncrementQuantity(call.before.inventory.rows,
                                    call.args.product_id, 0 - call.args.quantity)
           /\ inventoryLogs = call.before.inventoryLogs

----------------------------------------------------------------------------
(* Claims on concurrent requests                                           *)

====
